---- MODULE Spec2Model ----
\* A model of brisbanekids-scraper.py: the scrape run of main() and the pure
\* functions it is built from (extract_event_details' record selection and
\* flattening, clean_description, to_ics_datetime, make_uid, build_ics_event,
\* build_ics_file).
\*
\* Text is a sequence of tokens.  A token is a substring of the text it stands
\* for: one character ("a", " ", "\n", "<", ">", "&"), or a run of characters
\* that the code treats as a unit ("&amp;", "lt;", a keyword such as "UID:", a
\* whole URL).  Python values are records [k |-> kind, v |-> payload].
EXTENDS Integers, Sequences, FiniteSets, TLC

VARIABLES
    pc,          \* position of main(): start, collect, process, close, write, done, aborted
    browser,     \* "none", "open", "closed"
    month_i,     \* number of month listings collected so far (loop at line 347)
    collected,   \* per month collected so far, the set of links collect_event_links returned
    all_links,   \* the set all_links (line 345)
    order,       \* the links the loop at line 357 has taken so far, in iteration order
    detail,      \* the detail page each visited link rendered (NoPage before the visit)
    ics_events,  \* the list ics_events (line 356)
    file,        \* content of brisbanekids.ics (NoFile while it does not exist)
    writes,      \* number of times the output file has been written
    failure,     \* the exception that ended the run ("none" while there is none)
    now,         \* the clock read by datetime.now (line 290)
    tz_local,    \* the machine's local UTC offset in minutes, used for naive datetimes
    fn_pc,       \* position of a single function call under study: "call", "return"
    fn_in,       \* its argument
    event_data,  \* extract_event_details' local event_data at line 153
    fn_out       \* its result

vars == <<pc, browser, month_i, collected, all_links, order, detail, ics_events,
          file, writes, failure, now, tz_local, fn_pc, fn_in, event_data, fn_out>>

mainVars == <<pc, browser, month_i, collected, all_links, order, detail,
              ics_events, file, writes, failure>>

fnVars == <<fn_pc, fn_in, event_data, fn_out>>

-----------------------------------------------------------------------------
\* Python values

\* Python's None (also what JSON null parses to).
None == [k |-> "None", v |-> <<>>]

\* A str with the given tokens.
Str(t) == [k |-> "str", v |-> t]

\* A dict: v is a function from the keys present to their values.
Dict(f) == [k |-> "dict", v |-> f]

\* A list.
List(s) == [k |-> "list", v |-> s]

\* An exception raised by the call, named by its class.
Raise(cls) == [k |-> "raise", v |-> cls]

IsRaise(x) == x.k = "raise"

\* Python truthiness, as used by `if not raw`, `if event_data`, `if p`, ...
Truthy(x) ==
    CASE x.k = "None" -> FALSE
      [] x.k = "str"  -> x.v # <<>>
      [] x.k = "list" -> x.v # <<>>
      [] x.k = "dict" -> DOMAIN x.v # {}
      [] OTHER        -> TRUE

\* dict.get(key, default)
GetOr(d, key, default) ==
    IF key \in DOMAIN d.v THEN d.v[key] ELSE default

\* dict.get(key)
Get(d, key) == GetOr(d, key, None)

\* All sequences over S of length at most n.
SeqUpTo(S, n) == UNION {[1..m -> S] : m \in 0..n}

Range(s) == {s[i] : i \in DOMAIN s}

\* "\n".join / ", ".join of a sequence of texts
RECURSIVE Join(_, _)
Join(sep, parts) ==
    IF parts = <<>> THEN <<>>
    ELSE IF Len(parts) = 1 THEN parts[1]
    ELSE parts[1] \o sep \o Join(sep, Tail(parts))

-----------------------------------------------------------------------------
\* clean_description

IsSpace(c) == c \in {" ", "\n"}

\* html.unescape: one left-to-right pass; the "&" an entity decodes to is not
\* read again as the start of another entity.
RECURSIVE Unescape(_)
Unescape(t) ==
    IF t = <<>> THEN <<>>
    ELSE IF Head(t) = "&amp;" THEN <<"&">> \o Unescape(Tail(t))
    ELSE IF Head(t) = "&" /\ Len(t) >= 2 /\ t[2] = "lt;"
         THEN <<"<">> \o Unescape(SubSeq(t, 3, Len(t)))
    ELSE <<Head(t)>> \o Unescape(Tail(t))

\* The index of the ">" closing a tag opened at t[i], or 0: the first ">"
\* after i, provided no "\n" stands before it ("." does not match "\n").
TagEnd(t, i) ==
    LET closers == {j \in (i+1)..Len(t) : t[j] = ">"}
    IN IF closers = {} THEN 0
       ELSE LET j == CHOOSE m \in closers : \A n \in closers : m <= n
            IN IF \E n \in (i+1)..(j-1) : t[n] = "\n" THEN 0 ELSE j

\* re.sub("<.*?>", "", text): leftmost, non-overlapping, lazy matches.
RECURSIVE StripFrom(_, _)
StripFrom(t, i) ==
    IF i > Len(t) THEN <<>>
    ELSE IF t[i] = "<" /\ TagEnd(t, i) # 0 THEN StripFrom(t, TagEnd(t, i) + 1)
    ELSE <<t[i]>> \o StripFrom(t, i + 1)

\* re.sub("<.*?>", "", text, count=1): only the first tag is removed.
RECURSIVE StripFirstFrom(_, _)
StripFirstFrom(t, i) ==
    IF i > Len(t) THEN <<>>
    ELSE IF t[i] = "<" /\ TagEnd(t, i) # 0 THEN SubSeq(t, TagEnd(t, i) + 1, Len(t))
    ELSE <<t[i]>> \o StripFirstFrom(t, i + 1)

StripTags_first_only(t) == StripFirstFrom(t, 1)

StripTags(t) == StripFrom(t, 1)

\* re.sub(r"\s+", " ", text)
RECURSIVE Collapse(_)
Collapse(t) ==
    IF t = <<>> THEN <<>>
    ELSE IF IsSpace(Head(t))
         THEN IF Len(t) >= 2 /\ IsSpace(t[2]) THEN Collapse(Tail(t))
              ELSE <<" ">> \o Collapse(Tail(t))
    ELSE <<Head(t)>> \o Collapse(Tail(t))

\* str.strip()
RECURSIVE Strip(_)
Strip(t) ==
    IF t = <<>> THEN <<>>
    ELSE IF IsSpace(Head(t)) THEN Strip(Tail(t))
    ELSE IF IsSpace(t[Len(t)]) THEN Strip(SubSeq(t, 1, Len(t) - 1))
    ELSE t

clean_description(desc) ==
    IF ~Truthy(desc) THEN Str(<<>>)
    ELSE Str(Strip(Collapse(StripTags(Unescape(desc.v)))))

-----------------------------------------------------------------------------
\* extract_event_details: the structured-data blocks of a detail page

\* script.inner_text().strip() is empty.
Blank == [k |-> "blank", v |-> <<>>]

\* json.loads raises JSONDecodeError on the block's text.
Invalid == [k |-> "invalid", v |-> <<>>]

\* json.loads returns x.
Json(x) == [k |-> "json", v |-> x]

EventType == Str(<<"Event">>)

IsEventItem(item) == item.k = "dict" /\ Get(item, "@type") = EventType

\* The inner loop (lines 141-144) without its break: the last Event of the
\* list is the one left in event_data.
RECURSIVE ScanList_no_break(_, _)
ScanList_no_break(items, i) ==
    IF i > Len(items) THEN None
    ELSE LET later == ScanList_no_break(items, i + 1)
         IN IF Truthy(later) THEN later
            ELSE IF IsEventItem(items[i]) THEN items[i] ELSE None

\* The inner loop (lines 141-144) from item i on: the first dict whose
\* "@type" is "Event", None when the list holds none.
RECURSIVE ScanList(_, _)
ScanList(items, i) ==
    IF i > Len(items) THEN None
    ELSE IF IsEventItem(items[i]) THEN items[i]
    ELSE ScanList(items, i + 1)

\* What one block leaves in event_data (lines 129-147).
ScanBlock(script) ==
    IF script.k = "blank" THEN None
    ELSE IF script.k = "invalid" THEN None
    ELSE LET parsed == script.v
         IN IF parsed.k = "list" THEN ScanList(parsed.v, 1)
            ELSE IF parsed.k = "dict"
                 THEN IF Get(parsed, "@type") = EventType THEN parsed ELSE None
            ELSE None

\* The loop over the script tags (lines 125-150) from tag i on; it stops at
\* the first block that left an event in event_data.
RECURSIVE ScanScripts(_, _)
ScanScripts(scripts, i) ==
    IF i > Len(scripts) THEN None
    ELSE IF Truthy(ScanBlock(scripts[i])) THEN ScanBlock(scripts[i])
    ELSE ScanScripts(scripts, i + 1)

\* The record returned at lines 161-173.
FlatRecord(ed, location, address) ==
    Dict([title       |-> Get(ed, "name"),
          description |-> Get(ed, "description"),
          start       |-> Get(ed, "startDate"),
          end         |-> Get(ed, "endDate"),
          venue       |-> Get(location, "name"),
          street      |-> Get(address, "streetAddress"),
          locality    |-> Get(address, "addressLocality"),
          region      |-> Get(address, "addressRegion"),
          postcode    |-> Get(address, "postalCode"),
          country     |-> Get(address, "addressCountry"),
          url         |-> Get(ed, "url")])

\* Lines 157-158 written with subscripts, event_data["location"] and
\* location["address"]: a missing key raises KeyError.
FlattenEvent_subscript(ed) ==
    IF "location" \notin DOMAIN ed.v THEN Raise("KeyError")
    ELSE LET location == ed.v["location"]
         IN IF location.k # "dict" THEN Raise("TypeError")
            ELSE IF "address" \notin DOMAIN location.v THEN Raise("KeyError")
            ELSE IF location.v["address"].k # "dict" THEN Raise("AttributeError")
            ELSE FlatRecord(ed, location, location.v["address"])

\* Lines 156-173: .get on a location or address that is present but is not a
\* dict (null, a string) raises AttributeError.
FlattenEvent(ed) ==
    LET location == GetOr(ed, "location", Dict(<<>>))
    IN IF location.k # "dict" THEN Raise("AttributeError")
       ELSE LET address == GetOr(location, "address", Dict(<<>>))
            IN IF address.k # "dict" THEN Raise("AttributeError")
               ELSE FlatRecord(ed, location, address)

\* extract_event_details past the page load: scripts are the page's
\* application/ld+json script tags in document order.
extract_event_details(scripts) ==
    LET ed == ScanScripts(scripts, 1)
    IN IF ~Truthy(ed) THEN None ELSE FlattenEvent(ed)

-----------------------------------------------------------------------------
\* to_ics_datetime

\* An aware or naive datetime; off is the UTC offset in minutes, naive says
\* the string carried none.
DateTime(y, mo, d, h, mi, s, off, naive) ==
    [y |-> y, mo |-> mo, d |-> d, h |-> h, mi |-> mi, s |-> s, off |-> off, naive |-> naive]

\* datetime.fromisoformat on the date strings of the model: the datetime it
\* returns, or None where it raises ValueError.
fromisoformat(tok) ==
    CASE tok = "2024-01-25T14:00:00+10:00" -> DateTime(2024, 1, 25, 14, 0, 0, 600, FALSE)
      [] tok = "2024-01-01T09:30:00+10:00" -> DateTime(2024, 1, 1, 9, 30, 0, 600, FALSE)
      [] tok = "2024-03-01T05:00:00+10:00" -> DateTime(2024, 3, 1, 5, 0, 0, 600, FALSE)
      [] tok = "2024-12-31T20:00:00-05:00" -> DateTime(2024, 12, 31, 20, 0, 0, -300, FALSE)
      [] tok = "2024-01-25T14:00:00"       -> DateTime(2024, 1, 25, 14, 0, 0, 0, TRUE)
      [] OTHER                             -> None

IsLeap(y) == (y % 4 = 0 /\ y % 100 # 0) \/ y % 400 = 0

DaysIn(y, mo) ==
    IF mo = 2 THEN (IF IsLeap(y) THEN 29 ELSE 28)
    ELSE IF mo \in {4, 6, 9, 11} THEN 30 ELSE 31

PrevDay(dt) ==
    IF dt.d > 1 THEN [dt EXCEPT !.d = dt.d - 1]
    ELSE IF dt.mo > 1 THEN [dt EXCEPT !.mo = dt.mo - 1, !.d = DaysIn(dt.y, dt.mo - 1)]
    ELSE [dt EXCEPT !.y = dt.y - 1, !.mo = 12, !.d = 31]

NextDay(dt) ==
    IF dt.d < DaysIn(dt.y, dt.mo) THEN [dt EXCEPT !.d = dt.d + 1]
    ELSE IF dt.mo < 12 THEN [dt EXCEPT !.mo = dt.mo + 1, !.d = 1]
    ELSE [dt EXCEPT !.y = dt.y + 1, !.mo = 1, !.d = 1]

\* dt.astimezone(timezone.utc); a naive datetime is read as local time.
astimezone_utc(dt, tz) ==
    LET off     == IF dt.naive THEN tz ELSE dt.off
        minutes == dt.h * 60 + dt.mi - off
        day     == IF minutes < 0 THEN PrevDay(dt)
                   ELSE IF minutes >= 1440 THEN NextDay(dt) ELSE dt
        m       == (minutes + 1440) % 1440
    IN [day EXCEPT !.h = m \div 60, !.mi = m % 60, !.off = 0, !.naive = FALSE]

Pad2(n) == IF n < 10 THEN "0" \o ToString(n) ELSE ToString(n)

\* strftime("%Y%m%dT%H%M%SZ"), one token
strftime(dt) ==
    ToString(dt.y) \o Pad2(dt.mo) \o Pad2(dt.d) \o "T"
        \o Pad2(dt.h) \o Pad2(dt.mi) \o Pad2(dt.s) \o "Z"

\* to_ics_datetime; tz is the machine's local offset.
to_ics_datetime(dt_str, tz) ==
    IF ~Truthy(dt_str) THEN None
    ELSE IF Len(dt_str.v) # 1 \/ fromisoformat(dt_str.v[1]) = None THEN Raise("ValueError")
    ELSE Str(<<strftime(astimezone_utc(fromisoformat(dt_str.v[1]), tz))>>)

-----------------------------------------------------------------------------
\* make_uid

\* hashlib.md5(url.encode()).hexdigest() on the URLs of the model.
md5_hexdigest(t) ==
    CASE t = <<"https://brisbanekids.com.au/event/a/">> -> "611c6d921a0a8df445f2c4eaf518b7b1"
      [] t = <<"https://brisbanekids.com.au/event/b/">> -> "3309822bb30dbdf9dd8a9cc8b500eab8"
      [] t = <<"https://brisbanekids.com.au/event/c/">> -> "e298269a87ecbb1a23c0cc5bb23d48a2"
      [] t = <<"https://brisbanekids.com.au/event/series/">> -> "64ba8c564eefaa0e56fcf0d42f318843"
      [] t = <<"https://brisbanekids.com.au/event/a/", "\n">> -> "506b5c8b03cd8a4e48ae105d7104fe1d"

\* make_uid; None has no encode method.
make_uid(url) ==
    IF url.k # "str" THEN Raise("AttributeError")
    ELSE Str(<<md5_hexdigest(url.v), "@brisbanekids">>)

-----------------------------------------------------------------------------
\* build_ics_event and build_ics_file

\* What an f-string puts for {x}.
Format(x) == IF x.k = "None" THEN <<"None">> ELSE x.v

LocationFields == <<"venue", "street", "locality", "region", "postcode", "country">>

\* ", ".join(location_parts) with no filter: an absent part joins as "".
LocationOf_unfiltered(event) ==
    Str(Join(<<", ">>, [i \in 1..6 |-> Format(
            IF Truthy(event.v[LocationFields[i]]) THEN event.v[LocationFields[i]] ELSE Str(<<>>))]))

\* Lines 277-285: the truthy parts joined by ", "; str.join raises TypeError
\* on a part that is not a str.
LocationOf(event) ==
    LET location_parts == [i \in 1..6 |-> event.v[LocationFields[i]]]
        kept           == SelectSeq(location_parts, Truthy)
    IN IF \E i \in DOMAIN kept : kept[i].k # "str" THEN Raise("TypeError")
       ELSE Str(Join(<<", ">>, [i \in DOMAIN kept |-> kept[i].v]))

\* Lines 288-297: the block's text.
EventBlock(uid, stamp, start, end, title, desc, location, url) ==
    Str(<<"BEGIN:VEVENT", "\n", "UID:">> \o uid.v
        \o <<"\n", "DTSTAMP:", stamp, "\n", "DTSTART:">> \o Format(start)
        \o <<"\n", "DTEND:">> \o Format(end)
        \o <<"\n", "SUMMARY:">> \o Format(title)
        \o <<"\n", "DESCRIPTION:">> \o Format(desc)
        \o <<"\n", "LOCATION:">> \o Format(location)
        \o <<"\n", "URL:">> \o Format(url)
        \o <<"\n", "END:VEVENT">>)

\* build_ics_event; clock is what datetime.now returns, tz the local offset.
\* The first exception raised is the call's outcome.
build_ics_event(event, clock, tz) ==
    LET start    == to_ics_datetime(event.v.start, tz)
        end      == to_ics_datetime(event.v.end, tz)
        desc     == clean_description(event.v.description)
        location == LocationOf(event)
        uid      == make_uid(event.v.url)
    IN IF IsRaise(start) THEN start
       ELSE IF IsRaise(end) THEN end
       ELSE IF IsRaise(location) THEN location
       ELSE IF IsRaise(uid) THEN uid
       ELSE EventBlock(uid, strftime(clock), start, end, event.v.title, desc,
                       location, event.v.url)

\* build_ics_file on a list of block texts.
build_ics_file(events) ==
    LET body == Join(<<"\n">>, [i \in DOMAIN events |-> events[i].v])
    IN Str(<<"BEGIN:VCALENDAR", "\n", "VERSION:2.0", "\n", "PRODID:-//BryanScraper//EN", "\n">>
           \o body \o <<"\n", "END:VCALENDAR">>)

\* text.split("\n")
RECURSIVE Lines(_)
Lines(t) ==
    IF \A i \in DOMAIN t : t[i] # "\n" THEN <<t>>
    ELSE LET nl == CHOOSE i \in DOMAIN t : t[i] = "\n" /\ \A j \in 1..(i-1) : t[j] # "\n"
         IN <<SubSeq(t, 1, nl - 1)>> \o Lines(SubSeq(t, nl + 1, Len(t)))

-----------------------------------------------------------------------------
\* Idle values of the variables a specification does not use.

MainIdle ==
    /\ pc = "idle" /\ browser = "none" /\ month_i = 0 /\ collected = <<>>
    /\ all_links = {} /\ order = <<>> /\ detail = <<>> /\ ics_events = <<>>
    /\ file = None /\ writes = 0 /\ failure = "none"

EnvIdle == now = None /\ tz_local = 0

FnIdle == fn_pc = "idle" /\ fn_in = None /\ event_data = None /\ fn_out = None

-----------------------------------------------------------------------------
\* clean_description on every description of bounded length

MaxDescLen == 4

DescTokens == {"a", " ", "\n", "<", ">", "&", "&amp;", "lt;"}

Descriptions == {None} \cup {Str(t) : t \in SeqUpTo(DescTokens, MaxDescLen)}

InitClean ==
    /\ MainIdle /\ EnvIdle
    /\ fn_pc = "call" /\ fn_in \in Descriptions
    /\ event_data = None /\ fn_out = None

CallClean ==
    /\ fn_pc = "call"
    /\ fn_out' = clean_description(fn_in)
    /\ fn_pc' = "return"
    /\ UNCHANGED <<mainVars, now, tz_local, fn_in, event_data>>

SpecClean == InitClean /\ [][CallClean]_vars

HasAmp(t) == \E i \in DOMAIN t : t[i] \in {"&", "&amp;"}

\* A "<" whose next ">" stands behind a line feed.
HasBrokenTag(t) ==
    \E i \in DOMAIN t :
        /\ t[i] = "<"
        /\ \E j \in (i+1)..Len(t) :
              /\ t[j] = ">"
              /\ \A n \in (i+1)..(j-1) : t[n] # ">"
              /\ \E n \in (i+1)..(j-1) : t[n] = "\n"

\* C8 as stated: clean_description(clean_description(x)) = clean_description(x)
\* for every input x (text, tags, entities, or None).
C8_Idempotent ==
    fn_pc = "return" => clean_description(fn_out) = fn_out

\* C8 amended: clean_description is idempotent on None and on every string
\* that holds no "&" and no "<" whose next ">" stands behind a line feed.
C8_IdempotentPlain ==
    (fn_pc = "return" /\ (fn_in = None \/ (~HasAmp(fn_in.v) /\ ~HasBrokenTag(fn_in.v))))
        => clean_description(fn_out) = fn_out

\* C8 witness: a string with a tag and a run of whitespace has been cleaned.
C8_Witness ==
    /\ fn_pc = "return"
    /\ fn_in = Str(<<"<", ">", " ">>)
    /\ fn_out = Str(<<>>)

-----------------------------------------------------------------------------
\* extract_event_details on every page of bounded size

MaxBlocks == 2
MaxItems == 2

Website == Dict("@type" :> Str(<<"WebSite">>) @@ "name" :> Str(<<"W">>))

Untyped == Dict("name" :> Str(<<"N">>))

FullAddress ==
    Dict("streetAddress" :> Str(<<"1 Main St">>) @@ "addressLocality" :> Str(<<"Brisbane">>)
         @@ "addressRegion" :> Str(<<"QLD">>) @@ "postalCode" :> Str(<<"4000">>)
         @@ "addressCountry" :> Str(<<"AU">>))

\* The values "location" takes when the key is present.
LocationValues ==
    { None,
      Str(<<"Brisbane">>),
      Dict("name" :> Str(<<"V">>)),
      Dict("name" :> Str(<<"V">>) @@ "address" :> None),
      Dict("name" :> Str(<<"V">>) @@ "address" :> FullAddress) }

EventNamed(n) ==
    "@type" :> EventType @@ "name" :> Str(<<n>>) @@ "url" :> Str(<<"u">>)

EventB == Dict(EventNamed("B"))

EventsA ==
    {Dict(EventNamed("A"))} \cup {Dict(EventNamed("A") @@ "location" :> l) : l \in LocationValues}

DictItems == {Website, Untyped, EventB} \cup EventsA

ListItems == {Str(<<"x">>), Website, EventB, Dict(EventNamed("A"))}

ScriptBlocks ==
    {Blank, Invalid, Json(Str(<<"x">>))}
        \cup {Json(d) : d \in DictItems}
        \cup {Json(List(l)) : l \in SeqUpTo(ListItems, MaxItems)}

InitExtract ==
    /\ MainIdle /\ EnvIdle
    /\ fn_pc = "call" /\ fn_in \in SeqUpTo(ScriptBlocks, MaxBlocks)
    /\ event_data = None /\ fn_out = None

CallExtract ==
    /\ fn_pc = "call"
    /\ event_data' = ScanScripts(fn_in, 1)
    /\ fn_out' = extract_event_details(fn_in)
    /\ fn_pc' = "return"
    /\ UNCHANGED <<mainVars, now, tz_local, fn_in>>

SpecExtract == InitExtract /\ [][CallExtract]_vars

\* The records a block offers, in order: the object itself, or the items of a
\* sequence; nothing for an empty or unparsable block or a scalar.
RecordsOf(script) ==
    IF script.k # "json" THEN <<>>
    ELSE IF script.v.k = "list" THEN script.v.v
    ELSE IF script.v.k = "dict" THEN <<script.v>>
    ELSE <<>>

RECURSIVE RecordsInOrder(_)
RecordsInOrder(scripts) ==
    IF scripts = <<>> THEN <<>>
    ELSE RecordsOf(Head(scripts)) \o RecordsInOrder(Tail(scripts))

EventPositions(recs) ==
    {i \in DOMAIN recs : recs[i].k = "dict" /\ "@type" \in DOMAIN recs[i].v
                          /\ recs[i].v["@type"] = EventType}

\* C6: the record selected is the first Event-typed record in document order
\* (blocks in order, a sequence's items in order); empty and unparsable
\* blocks and other records are passed over; with no Event-typed record the
\* result is None and not an exception.
C6_FirstEventWins ==
    fn_pc = "return" =>
        LET recs == RecordsInOrder(fn_in)
            at   == EventPositions(recs)
        IN IF at = {}
           THEN event_data = None /\ fn_out = None
           ELSE LET first == CHOOSE i \in at : \A j \in at : i <= j
                IN /\ event_data = recs[first]
                   /\ (~IsRaise(fn_out) => fn_out.v.title = recs[first].v["name"])

\* C6 witness: a non-Event block, then a sequence of two Events; the first
\* Event of the sequence is returned.
C6_Witness ==
    /\ fn_pc = "return"
    /\ fn_in = <<Json(Website), Json(List(<<EventB, Dict(EventNamed("A"))>>))>>
    /\ fn_out.k = "dict"
    /\ fn_out.v.title = Str(<<"B">>)

\* C7: for an Event record with no "location", or with a "location" object
\* that has no "address", extraction does not raise and the fields read from
\* the missing object are None.
C7_MissingNestedObjects ==
    (fn_pc = "return" /\ Truthy(event_data)) =>
        /\ "location" \notin DOMAIN event_data.v =>
              /\ fn_out.k = "dict"
              /\ \A f \in {"venue", "street", "locality", "region", "postcode", "country"} :
                    fn_out.v[f] = None
        /\ ("location" \in DOMAIN event_data.v
              /\ event_data.v["location"].k = "dict"
              /\ "address" \notin DOMAIN event_data.v["location"].v) =>
              /\ fn_out.k = "dict"
              /\ fn_out.v.venue = event_data.v["location"].v["name"]
              /\ \A f \in {"street", "locality", "region", "postcode", "country"} :
                    fn_out.v[f] = None

\* C7 witness: an Event whose location has a name and no address was flattened.
C7_Witness ==
    /\ fn_pc = "return"
    /\ Truthy(event_data)
    /\ "location" \in DOMAIN event_data.v
    /\ event_data.v["location"] = Dict("name" :> Str(<<"V">>))
    /\ fn_out.k = "dict"
    /\ fn_out.v.venue = Str(<<"V">>)
    /\ fn_out.v.street = None

\* C7 witness, second case: an Event with no location at all was flattened.
C7_WitnessNoLocation ==
    /\ fn_pc = "return"
    /\ Truthy(event_data)
    /\ "location" \notin DOMAIN event_data.v
    /\ fn_out.k = "dict"

-----------------------------------------------------------------------------
\* build_ics_event on a family of event records

UrlA == "https://brisbanekids.com.au/event/a/"
UrlB == "https://brisbanekids.com.au/event/b/"
UrlC == "https://brisbanekids.com.au/event/c/"
UrlSeries == "https://brisbanekids.com.au/event/series/"

\* The instants datetime.now may return.
Clock == {DateTime(2026, 11, 4, 16, 40, 0, 0, FALSE)}

LocalOffsets == {0, 600}

DateTokens ==
    {"2024-01-25T14:00:00+10:00", "2024-01-01T09:30:00+10:00", "2024-03-01T05:00:00+10:00",
     "2024-12-31T20:00:00-05:00", "2024-01-25T14:00:00", "TBA"}

DateValues == {None} \cup {Str(<<d>>) : d \in DateTokens}

TitleValues == {None, Str(<<"T">>), Str(<<"A", "\n", "B">>)}

DescriptionValues == {None, Str(<<"a", "\n", "<", ">", "&amp;", "b">>)}

UrlValues == {None, Str(<<UrlA>>), Str(<<UrlA, "\n">>)}

PartValues(name) == {None, Str(<<>>), Str(<<name>>)}

BaseEvent ==
    [title |-> Str(<<"T">>), description |-> None,
     start |-> Str(<<"2024-01-25T14:00:00+10:00">>), end |-> None,
     venue |-> Str(<<"X">>), street |-> Str(<<"1 Main St">>), locality |-> None,
     region |-> None, postcode |-> None, country |-> None, url |-> Str(<<UrlA>>)]

\* Records that vary the title, description, dates and url ...
EventsByText ==
    {Dict([BaseEvent EXCEPT !.title = t, !.description = d, !.start = s, !.end = e, !.url = u]) :
        t \in TitleValues, d \in DescriptionValues, s \in DateValues, e \in DateValues,
        u \in UrlValues}

\* ... and records that vary the six location sub-fields.
EventsByLocation ==
    {Dict([BaseEvent EXCEPT !.venue = p[1], !.street = p[2], !.locality = p[3],
                            !.region = p[4], !.postcode = p[5], !.country = p[6]]) :
        p \in PartValues("X") \X PartValues("1 Main St") \X PartValues("Brisbane")
              \X PartValues("QLD") \X PartValues("4000") \X PartValues("AU")}

InitBuild ==
    /\ MainIdle
    /\ now \in Clock /\ tz_local \in LocalOffsets
    /\ fn_pc = "call" /\ fn_in \in EventsByText \cup EventsByLocation
    /\ event_data = None /\ fn_out = None

CallBuild ==
    /\ fn_pc = "call"
    /\ fn_out' = build_ics_event(fn_in, now, tz_local)
    /\ fn_pc' = "return"
    /\ UNCHANGED <<mainVars, now, tz_local, fn_in, event_data>>

SpecBuild == InitBuild /\ [][CallBuild]_vars

\* The lines of a text that start with the given keyword.
LinesWith(t, keyword) ==
    SelectSeq(Lines(t), LAMBDA l : l # <<>> /\ l[1] = keyword)

Built == fn_pc = "return" /\ fn_out.k = "str"

\* The UTC timestamps of the model's date strings, worked out by hand.
ExpectedUtc(tok, tz) ==
    CASE tok = "2024-01-25T14:00:00+10:00" -> "20240125T040000Z"
      [] tok = "2024-01-01T09:30:00+10:00" -> "20231231T233000Z"
      [] tok = "2024-03-01T05:00:00+10:00" -> "20240229T190000Z"
      [] tok = "2024-12-31T20:00:00-05:00" -> "20250101T010000Z"
      [] tok = "2024-01-25T14:00:00"       -> IF tz = 600 THEN "20240125T040000Z"
                                                          ELSE "20240125T140000Z"

\* C4: a record with startDate present and endDate absent gives a block whose
\* DTSTART line carries the UTC timestamp and whose DTEND is empty or omitted.
C4_AbsentEndStaysAbsent ==
    (Built /\ Truthy(fn_in.v.start) /\ fn_in.v.end = None) =>
        /\ LinesWith(fn_out.v, "DTSTART:")
              = <<(<<"DTSTART:", ExpectedUtc(fn_in.v.start.v[1], tz_local)>>)>>
        /\ \/ LinesWith(fn_out.v, "DTEND:") = <<>>
           \/ LinesWith(fn_out.v, "DTEND:") = << <<"DTEND:">> >>

VEventKeywords ==
    <<"UID:", "DTSTAMP:", "DTSTART:", "DTEND:", "SUMMARY:", "DESCRIPTION:", "LOCATION:", "URL:">>

\* A block of exactly ten lines: BEGIN:VEVENT, the eight fields in order, one
\* line each, END:VEVENT.
WellFormedBlock(t) ==
    LET ls == Lines(t)
    IN /\ Len(ls) = 10
       /\ ls[1] = <<"BEGIN:VEVENT">>
       /\ \A i \in 1..8 : ls[i + 1] # <<>> /\ ls[i + 1][1] = VEventKeywords[i]
       /\ ls[10] = <<"END:VEVENT">>

\* C5: every block built is BEGIN:VEVENT, the eight fields UID .. URL in
\* order, each on exactly one line, END:VEVENT, whatever the record's text.
C5_EightFieldsOneLineEach ==
    Built => WellFormedBlock(fn_out.v)

Separator == ", "

\* The text after the LOCATION: keyword.
LocationValue(t) == Tail(LinesWith(t, "LOCATION:")[1])

\* The non-empty sub-fields in their fixed order, run together.
PartsInOrder(event) ==
    LET part(i) == IF event.v[LocationFields[i]].k = "str"
                   THEN event.v[LocationFields[i]].v ELSE <<>>
    IN part(1) \o part(2) \o part(3) \o part(4) \o part(5) \o part(6)

NonEmptyParts(event) ==
    {i \in 1..6 : event.v[LocationFields[i]] \notin {None, Str(<<>>)}}

\* C9: the LOCATION value is the non-empty sub-fields in order with one ", "
\* between neighbours: no separator first, last, or next to another one.
C9_LocationJoin ==
    Built =>
        LET val == LocationValue(fn_out.v)
            n   == Cardinality(NonEmptyParts(fn_in))
        IN /\ SelectSeq(val, LAMBDA c : c # Separator) = PartsInOrder(fn_in)
           /\ Cardinality({i \in DOMAIN val : val[i] = Separator}) = (IF n = 0 THEN 0 ELSE n - 1)
           /\ val # <<>> => val[1] # Separator /\ val[Len(val)] # Separator
           /\ \A i \in 1..(Len(val) - 1) : ~(val[i] = Separator /\ val[i + 1] = Separator)

\* C9 witness: venue "X", street "1 Main St", nothing else gives
\* LOCATION:X, 1 Main St
C9_Witness ==
    /\ Built
    /\ fn_in.v.venue = Str(<<"X">>) /\ fn_in.v.street = Str(<<"1 Main St">>)
    /\ fn_in.v.locality = None /\ fn_in.v.region = Str(<<>>)
    /\ fn_in.v.postcode = None /\ fn_in.v.country = None
    /\ LinesWith(fn_out.v, "LOCATION:") = << <<"LOCATION:", "X", ", ", "1 Main St">> >>

-----------------------------------------------------------------------------
\* collect_event_links

\* An event card with no "h3 a" element inside.
NoAnchor == [k |-> "card", v |-> "no anchor"]

\* A card whose anchor has no (or an empty) href.
NoHref == [k |-> "card", v |-> "no href"]

\* A card whose anchor links to url.
Anchor(url) == [k |-> "card", v |-> url]

\* collect_event_links past the page load: the hrefs of the cards that have
\* an anchor with an href, in page order.
collect_event_links(cards) ==
    LET kept == SelectSeq(cards, LAMBDA c : c \notin {NoAnchor, NoHref})
    IN [i \in DOMAIN kept |-> kept[i].v]

-----------------------------------------------------------------------------
\* main

\* get_month_urls returns two URLs: this month's and next month's.
NumMonths == 2

MaxCards == 2

Links == {UrlA, UrlB, UrlC}

Cards == {NoAnchor, NoHref} \cup {Anchor(l) : l \in Links}

Listings == SeqUpTo(Cards, MaxCards)

EventRecord(url, start) ==
    Dict("@type" :> EventType @@ "name" :> Str(<<"T">>) @@ "description" :> Str(<<"a", "<", ">">>)
         @@ "startDate" :> Str(<<start>>) @@ "endDate" :> Str(<<"2024-03-01T05:00:00+10:00">>)
         @@ "url" :> Str(<<url>>) @@ "location" :> Dict("name" :> Str(<<"V">>)))

\* The pages the detail URL l may render: an event page that declares its own
\* URL, a page with no Event record, an event page that declares the URL of
\* its series, and an event page whose startDate is not a date.
DetailPages(l) ==
    { <<Json(Website), Json(EventRecord(l, "2024-01-25T14:00:00+10:00"))>>,
      <<Json(Website), Invalid>>,
      <<Json(List(<<Website, EventRecord(UrlSeries, "2024-01-25T14:00:00+10:00")>>))>>,
      <<Json(EventRecord(l, "TBA"))>> }

NoFailure == [stage |-> "none", cls |-> "none"]

Failure(stage, cls) == [stage |-> stage, cls |-> cls]

Init ==
    /\ pc = "start" /\ browser = "none" /\ month_i = 0 /\ collected = <<>>
    /\ all_links = {} /\ order = <<>> /\ detail = [l \in Links |-> None]
    /\ ics_events = <<>> /\ file = None /\ writes = 0 /\ failure = NoFailure
    /\ now \in Clock /\ tz_local \in LocalOffsets
    /\ FnIdle

\* An exception leaves main(); inside the `with` block the context manager
\* shuts the browser down on the way out.
Abort(stage, cls) ==
    /\ pc' = "aborted"
    /\ failure' = Failure(stage, cls)
    /\ browser' = IF browser = "open" THEN "closed" ELSE browser

\* Lines 335-338
Launch ==
    /\ pc = "start"
    /\ browser' = "open"
    /\ pc' = "collect"
    /\ UNCHANGED <<month_i, collected, all_links, order, detail, ics_events, file,
                   writes, failure, now, tz_local, fnVars>>

\* Lines 335-338: the browser cannot be started.
LaunchFail ==
    /\ pc = "start"
    /\ Abort("launch", "Error")
    /\ UNCHANGED <<month_i, collected, all_links, order, detail, ics_events, file,
                   writes, now, tz_local, fnVars>>

\* all_links = set(links): the set is replaced, not extended.
UpdateLinks_overwrite(links_set, links) == Range(links)

\* all_links.update(links)
UpdateLinks(links_set, links) == links_set \cup Range(links)

\* Lines 347-351, one month: the listing renders the given cards.
Collect(cards) ==
    /\ pc = "collect"
    /\ month_i < NumMonths
    /\ LET links == collect_event_links(cards)
       IN /\ collected' = Append(collected, Range(links))
          /\ all_links' = UpdateLinks(all_links, links)
    /\ month_i' = month_i + 1
    /\ pc' = IF month_i + 1 = NumMonths THEN "process" ELSE "collect"
    /\ UNCHANGED <<browser, order, detail, ics_events, file, writes, failure,
                   now, tz_local, fnVars>>

\* Line 76: page.goto on a month listing times out.
CollectTimeout ==
    /\ pc = "collect"
    /\ month_i < NumMonths
    /\ Abort("listing", "TimeoutError")
    /\ UNCHANGED <<month_i, collected, all_links, order, detail, ics_events, file,
                   writes, now, tz_local, fnVars>>

\* The links the loop at line 357 has still to take.
Remaining == all_links \ Range(order)

\* Lines 359-361 past the page load: the new ics_events, or the exception
\* that extract_event_details or build_ics_event raised.
AfterDetails(events, details, clock, tz) ==
    IF IsRaise(details) THEN details
    ELSE IF ~Truthy(details) THEN List(events)
    ELSE LET block == build_ics_event(details, clock, tz)
         IN IF IsRaise(block) THEN block ELSE List(Append(events, block))

\* Lines 357-361, one link: the set hands out any link not yet taken, and its
\* detail page renders the given script blocks.
ProcessLink(url, scripts) ==
    /\ pc = "process"
    /\ url \in Remaining
    /\ order' = Append(order, url)
    /\ detail' = [detail EXCEPT ![url] = List(scripts)]
    /\ LET after == AfterDetails(ics_events, extract_event_details(scripts), now, tz_local)
       IN IF IsRaise(after)
          THEN /\ Abort("event", after.v)
               /\ UNCHANGED ics_events
          ELSE /\ ics_events' = after.v
               /\ UNCHANGED <<pc, failure, browser>>
    /\ UNCHANGED <<month_i, collected, all_links, file, writes, now, tz_local, fnVars>>

\* Line 120: page.goto on a detail page times out.
ProcessTimeout(url) ==
    /\ pc = "process"
    /\ url \in Remaining
    /\ order' = Append(order, url)
    /\ Abort("event", "TimeoutError")
    /\ UNCHANGED <<month_i, collected, all_links, detail, ics_events, file, writes,
                   now, tz_local, fnVars>>

\* Line 363, reached when the loop has taken every link.
CloseBrowser ==
    /\ pc = "process"
    /\ Remaining = {}
    /\ browser' = "closed"
    /\ pc' = "write"
    /\ UNCHANGED <<month_i, collected, all_links, order, detail, ics_events, file,
                   writes, failure, now, tz_local, fnVars>>

\* The file written inside the loop, after each link.
Write_in_loop ==
    /\ pc = "process"
    /\ order # <<>>
    /\ writes = 0
    /\ file' = build_ics_file(ics_events)
    /\ writes' = writes + 1
    /\ UNCHANGED <<pc, browser, month_i, collected, all_links, order, detail, ics_events,
                   failure, now, tz_local, fnVars>>

\* Lines 366-368
Write ==
    /\ pc = "write"
    /\ file' = build_ics_file(ics_events)
    /\ writes' = writes + 1
    /\ pc' = "done"
    /\ UNCHANGED <<browser, month_i, collected, all_links, order, detail, ics_events,
                   failure, now, tz_local, fnVars>>

\* Lines 367-368: open raises (nothing is written), or write raises after
\* open has truncated the file.
WriteFail ==
    /\ pc = "write"
    /\ file' \in {None, Str(<<>>)}
    /\ Abort("write", "OSError")
    /\ UNCHANGED <<month_i, collected, all_links, order, detail, ics_events,
                   writes, now, tz_local, fnVars>>

Next ==
    \/ Launch
    \/ LaunchFail
    \/ \E cards \in Listings : Collect(cards)
    \/ CollectTimeout
    \/ \E url \in Links : \E scripts \in DetailPages(url) : ProcessLink(url, scripts)
    \/ \E url \in Links : ProcessTimeout(url)
    \/ CloseBrowser
    \/ Write
    \/ WriteFail

Spec == Init /\ [][Next]_vars

-----------------------------------------------------------------------------
\* Claims about the run

\* The links the two listings offered.
Collected == UNION Range(collected)

\* The link's detail page was rendered and extraction returned a record.
YieldsEvent(l) ==
    detail[l] # None /\ extract_event_details(detail[l].v).k = "dict"

\* C1: a failure while one link is processed (a timeout on its detail page,
\* a startDate that is present and unparsable) does not end the run.
C1_LinkFailureDoesNotAbort ==
    pc = "aborted" => failure.stage # "event"

\* C2: the document holds exactly one VEVENT block for each distinct link of
\* the two listings whose detail page yields an Event record, and none for a
\* link whose page yields nothing.
C2_OneBlockPerEventLink ==
    pc = "done" =>
        LET yielding == SelectSeq(order, YieldsEvent)
        IN /\ Range(order) = Collected
           /\ Len(order) = Cardinality(Collected)
           /\ Len(ics_events) = Len(yielding)
           /\ \A i \in DOMAIN yielding :
                 ics_events[i] = build_ics_event(
                     extract_event_details(detail[yielding[i]].v), now, tz_local)
           /\ Len(LinesWith(file.v, "BEGIN:VEVENT"))
                 = Cardinality({l \in Collected : YieldsEvent(l)})

\* C2 witness: UrlA is in both month listings and yields an event, UrlB
\* yields nothing; the document has one block for UrlA and none for UrlB.
C2_Witness ==
    /\ pc = "done"
    /\ UrlA \in collected[1] /\ UrlA \in collected[2]
    /\ UrlB \in Collected
    /\ YieldsEvent(UrlA) /\ ~YieldsEvent(UrlB)
    /\ LinesWith(file.v, "URL:") = << <<"URL:", UrlA>> >>
    /\ Len(LinesWith(file.v, "BEGIN:VEVENT")) = 1

\* C3: no two VEVENT blocks of a written document carry the same UID.
C3_UniqueUIDs ==
    writes = 1 =>
        LET uids == LinesWith(file.v, "UID:")
        IN \A i, j \in DOMAIN uids : i # j => uids[i] # uids[j]

\* C10: the file is written at most once, and only after both listings have
\* been collected, every link has been taken and the browser is closed; a run
\* that fails before the write leaves no file, and what a completed write
\* leaves is the document of all the events.
C10_WriteOnceAtTheEnd ==
    /\ writes <= 1
    /\ file # None =>
          /\ month_i = NumMonths
          /\ Len(collected) = NumMonths
          /\ Range(order) = all_links
          /\ browser = "closed"
    /\ (pc = "aborted" /\ failure.stage # "write") => (file = None /\ writes = 0)
    /\ writes = 1 => (pc = "done" /\ file = build_ics_file(ics_events))

\* C10 witness: the file has been written, after two links were processed.
C10_Witness ==
    /\ pc = "done" /\ writes = 1
    /\ Len(order) = 2 /\ Len(ics_events) = 2
    /\ file = build_ics_file(ics_events)

\* C10 witness, failing run: the run stopped at its second link, with one
\* event already built, and there is no file.
C10_WitnessAborted ==
    /\ pc = "aborted" /\ failure.stage = "event"
    /\ Len(order) = 2 /\ Len(ics_events) = 1
    /\ file = None

====
